---- MODULE Spec2Model ----
(***************************************************************************)
(* Model of main.py: the Philips Hue mood-lighting utility.                *)
(*                                                                         *)
(* The program is the script entry point (main() followed by               *)
(* run_mood_application()), one daemon thread per configured bulb running  *)
(* mood(), and the shared threading.Event that stops them.                 *)
(*                                                                         *)
(* Times are integers in hundredths of a second (0.5 s = 50).  The         *)
(* per-tick increments (tgt - cur) / steps are kept as exact fractions     *)
(* num / steps and Python's round() is modelled as round-half-to-even on   *)
(* that fraction.                                                          *)
(***************************************************************************)
EXTENDS Integers, Sequences, FiniteSets, TLC

VARIABLES
    env,         \* os.environ and sys.argv[1:], fixed for the whole run
    lights,      \* the bridge's "lights" collection, in dict order
    pool,        \* the draws random.randint / random.uniform may yield
    mainpc,      \* position of the main thread
    rc,          \* value main() returned, until the script drops it (-1)
    outcome,     \* how main()'s fetch ended, kept as long as rc is
    fetched,     \* the requests.get calls main() made
    cfg,         \* the configuration main() loaded
    exit_status, \* exit status of the process (-1: still running)
    threads,     \* run_mood_application: the list `threads`
    joined,      \* run_mood_application: how each t.join() ended
    stop_event,  \* the shared threading.Event
    pc,          \* per bulb: position of its mood() call
    light_id,    \* per bulb: id resolved by name (0: none)
    orig,        \* per bulb: orig_on, orig_bri, orig_hue, orig_sat
    cur,         \* per bulb: is_on, cur_bri, cur_hue, cur_sat
    tgt,         \* per bulb: tgt_hue, tgt_sat, tgt_bri of the cycle
    steps,       \* per bulb: steps of the cycle
    delta,       \* per bulb: numerators of dhue, dsat, dbri (over steps)
    tick,        \* per bulb: the for-loop's i
    cycles,      \* per bulb: number of targets sampled so far
    error,       \* per bulb: an exception is propagating out of mood()
    sent,        \* per bulb: the last PUT answered (kind, payload, outcome)
    wire,        \* the PUTs issued and not answered yet
    nOn,         \* per bulb: power-on writes issued
    nAnim,       \* per bulb: animation writes issued
    nRestore,    \* per bulb: restoration writes issued
    log,         \* per bulb: the message logger.error gave at startup
    max_seconds, \* per bulb: the cycle's max_seconds
    t_seconds    \* per bulb: the cycle's duration

vars == <<env, lights, pool, mainpc, rc, outcome, fetched, cfg, exit_status,
          threads, joined, stop_event, pc, light_id, orig, cur, tgt, steps,
          delta, tick, cycles, error, sent, wire, nOn, nAnim, nRestore, log,
          max_seconds, t_seconds>>

loopvars == <<pc, light_id, orig, cur, tgt, steps, delta, tick, cycles,
              error, sent, wire, nOn, nAnim, nRestore, log, max_seconds,
              t_seconds>>

mainvars == <<mainpc, rc, outcome, fetched, cfg, exit_status, threads, joined,
              stop_event>>

worldvars == <<env, lights, pool>>

----------------------------------------------------------------------------
(* Bounds of the model *)

\* most targets one loop samples before it idles waiting for the stop event
MaxCycles == 2

\* the same, in the runs of the whole script
GroupMaxCycles == 1

----------------------------------------------------------------------------
(* Program constants *)

HUE_MAX == 65535
SAT_MAX == 254
BRI_MAX == 254
BRI_MIN == 1
DEFAULT_BRI == 200
DEFAULT_HUE == 0
DEFAULT_SAT == 200
TGT_SAT_MIN == 150
TGT_BRI_MIN == 10
\* 0.5 s, 30.0 s and the 0.1 s tick, in hundredths of a second
MIN_SECONDS == 50
DEFAULT_MAX_SECONDS == 3000
TICK == 10
\* REQUEST_TIMEOUT's default 5.0 s, in hundredths of a second
DEFAULT_TIMEOUT == 500

bulbs == <<"Billy", "Anna", "Sleepy">>

Bulbs == {bulbs[k] : k \in 1..Len(bulbs)}

\* faulty variant: the threads are started with restore_on_exit=False
restore_off == FALSE

\* mood(..., restore_on_exit=True); start_mood_thread never overrides it
restore_on_exit == TRUE

----------------------------------------------------------------------------
(* Pure helpers *)

Max(a, b) == IF a >= b THEN a ELSE b

Min(a, b) == IF a <= b THEN a ELSE b

\* faulty variant: the value is passed through unclamped
_clampNone(v, lo, hi) == v

\* _clamp(v, lo, hi) = max(lo, min(hi, v))
_clamp(v, lo, hi) == Max(lo, Min(hi, v))

\* Python round(n / d) for d > 0: nearest integer, ties to the even one
Round(n, d) ==
    LET q == n \div d
        r == n % d
    IN  IF 2 * r < d THEN q
        ELSE IF 2 * r > d THEN q + 1
        ELSE IF q % 2 = 0 THEN q ELSE q + 1

\* dict.get(key, default)
Get(d, k, default) == IF k \in DOMAIN d THEN d[k] ELSE default

\* str.strip().lower() on the names that occur in the model
Normalize(s) ==
    CASE s \in {"Billy", "billy", " BILLY "} -> "billy"
      [] s \in {"Anna", "anna", "ANNA "} -> "anna"
      [] s \in {"Sleepy", "sleepy"} -> "sleepy"
      [] s \in {"Desk", "desk"} -> "desk"
      [] OTHER -> s

\* the payload set_light_state builds from the keyword arguments it is given
set_light_state(kw) ==
    [k \in DOMAIN kw |->
        CASE k = "on" -> kw[k]
          [] k = "bri" -> Max(BRI_MIN, Min(BRI_MAX, kw[k]))
          [] k = "hue" -> Max(0, Min(HUE_MAX, kw[k]))
          [] k = "sat" -> Max(0, Min(SAT_MAX, kw[k]))
          [] k = "transitiontime" -> Max(0, kw[k])]

\* faulty variant: the name is not compared, the first light is taken
resolve_first_light(ls, bulb_name) ==
    IF Len(ls) = 0 THEN 0 ELSE ls[1].id

\* resolve_light_id_by_name: id of the first light whose name matches
resolve_light_id_by_name(ls, bulb_name) ==
    LET hits == {k \in 1..Len(ls) : Normalize(ls[k].name) = Normalize(bulb_name)}
    IN  IF hits = {} THEN 0
        ELSE ls[CHOOSE k \in hits : \A m \in hits : k <= m].id

\* get_light_state: the "state" object of the light with that id
get_light_state(ls, lid) ==
    LET k == CHOOSE m \in 1..Len(ls) : ls[m].id = lid
    IN  ls[k].state

\* Python's None, where a string is expected
None == "<None>"

\* what float(s) gives: a number (in hundredths), nan, or ValueError ("bad");
\* "none" stands for the None that _try_parse returns
NoValue == [k |-> "none", v |-> 0]
BadValue == [k |-> "bad", v |-> 0]
NanValue == [k |-> "nan", v |-> 0]
Num(n) == [k |-> "num", v |-> n]

\* float(s) on the strings that occur in the model
float(s) ==
    CASE s = "0.1" -> Num(10)
      [] s = "0.5" -> Num(50)
      [] s = "0.7" -> Num(70)
      [] s = "2.0" -> Num(200)
      [] s = "5.0" -> Num(500)
      [] s = "7.5" -> Num(750)
      [] s = "10.0" -> Num(1000)
      [] s = "-1" -> Num(-100)
      [] s = "nan" -> NanValue
      [] OTHER -> BadValue

\* os.getenv(key) and os.getenv(key, default)
getenv(environ, key, default) == Get(environ, key, default)

\* `not user_id`: None and the empty string are false
Falsy(user_id) == user_id = None \/ user_id = ""

\* faulty variant: the ValueError of float() is not caught
load_configStrict(environ) ==
    LET timeout_raw == getenv(environ, "REQUEST_TIMEOUT", "5.0")
    IN  [user_id |-> getenv(environ, "HUE_USER_ID", None),
         bridge_ip |-> getenv(environ, "HUE_BRIDGE_IP", "192.168.1.2"),
         log_level |-> getenv(environ, "LOG_LEVEL", "INFO"),
         timeout |-> float(timeout_raw)]

\* load_config(): the environment with defaults; a REQUEST_TIMEOUT that
\* float() rejects gives 5.0
load_config(environ) ==
    LET timeout_raw == getenv(environ, "REQUEST_TIMEOUT", "5.0")
        parsed == float(timeout_raw)
    IN  [user_id |-> getenv(environ, "HUE_USER_ID", None),
         bridge_ip |-> getenv(environ, "HUE_BRIDGE_IP", "192.168.1.2"),
         log_level |-> getenv(environ, "LOG_LEVEL", "INFO"),
         timeout |-> IF parsed.k = "bad" THEN Num(DEFAULT_TIMEOUT) ELSE parsed]

\* before load_config has run
NoConfig ==
    [user_id |-> None, bridge_ip |-> None, log_level |-> None,
     timeout |-> NoValue]

\* build_base_url: the pieces of f"http://{bridge_ip}/api/{user_id}/"
build_base_url(user_id, bridge_ip) ==
    <<"http://", bridge_ip, "/api/", user_id, "/">>

\* a command-line argument: the string head \o tail, where head is
\* "--mood-max-seconds=" or empty
Eq(v) == [head |-> "--mood-max-seconds=", tail |-> v]
Word(w) == [head |-> "", tail |-> w]

\* _try_parse: float(s), or None on ValueError
_try_parse(s) == IF float(s).k = "bad" THEN NoValue ELSE float(s)

\* _try_parse on a whole argument
ParseArg(arg) == IF arg.head = "" THEN _try_parse(arg.tail) ELSE NoValue

\* first loop: the first --mood-max-seconds=VALUE whose VALUE parses
CliEquals(argv) ==
    LET hits == {i \in 1..Len(argv) :
                    /\ argv[i].head = "--mood-max-seconds="
                    /\ _try_parse(argv[i].tail).k # "none"}
    IN  IF hits = {} THEN NoValue
        ELSE _try_parse(argv[CHOOSE i \in hits : \A j \in hits : i <= j].tail)

\* second loop: the first `--mood-max-seconds VALUE` or `-M VALUE` whose
\* VALUE parses
CliSeparate(argv) ==
    LET hits == {i \in 1..Len(argv) :
                    /\ argv[i] \in {Word("--mood-max-seconds"), Word("-M")}
                    /\ i + 1 <= Len(argv)
                    /\ ParseArg(argv[i + 1]).k # "none"}
    IN  IF hits = {} THEN NoValue
        ELSE ParseArg(argv[(CHOOSE i \in hits : \A j \in hits : i <= j) + 1])

\* faulty variant: the environment is asked before the command line
TiersEnvFirst(e) ==
    <<IF "HUE_MOOD_MAX_SECONDS" \in DOMAIN e.environ
        THEN _try_parse(e.environ["HUE_MOOD_MAX_SECONDS"]) ELSE NoValue,
      CliEquals(e.argv),
      CliSeparate(e.argv),
      Num(DEFAULT_MAX_SECONDS)>>

\* the tiers of _get_mood_max_seconds, highest priority first
Tiers(e) ==
    <<CliEquals(e.argv),
      CliSeparate(e.argv),
      IF "HUE_MOOD_MAX_SECONDS" \in DOMAIN e.environ
        THEN _try_parse(e.environ["HUE_MOOD_MAX_SECONDS"]) ELSE NoValue,
      Num(DEFAULT_MAX_SECONDS)>>

\* _get_mood_max_seconds: command line, then environment, then default,
\* then the 0.5 s floor (nan compares false with everything and passes)
_get_mood_max_seconds(e) ==
    LET t == Tiers(e)
        first == CHOOSE i \in 1..Len(t) :
                    /\ t[i].k # "none"
                    /\ \A j \in 1..(i - 1) : t[j].k = "none"
        value == t[first]
    IN  IF value.k = "num" /\ value.v < MIN_SECONDS THEN Num(MIN_SECONDS)
        ELSE value

\* is_on, cur_bri, cur_hue, cur_sat as read from a light's state object
ReadState(state) ==
    [on |-> Get(state, "on", FALSE),
     bri |-> Get(state, "bri", DEFAULT_BRI),
     hue |-> Get(state, "hue", DEFAULT_HUE),
     sat |-> Get(state, "sat", DEFAULT_SAT)]

\* faulty variant: the duration is rounded to whole seconds
StepCountSeconds(t) == Max(1, Round(t, TICK * TICK))

\* steps = max(1, int(round(t_seconds / 0.1)))
StepCount(t) == Max(1, Round(t, TICK))

\* faulty variant: the increment is added twice
AdvanceTwice(c, num, n, lo, hi) == _clamp(Round(c * n + 2 * num, n), lo, hi)

\* cur = int(_clamp(round(cur + d), lo, hi)) with d = num / n
Advance(c, num, n, lo, hi) == _clamp(Round(c * n + num, n), lo, hi)

----------------------------------------------------------------------------
(* The world the program runs in *)

LightOn == [on |-> TRUE, bri |-> 1, hue |-> 1, sat |-> 0]
LightOff == [on |-> FALSE, bri |-> 254, hue |-> 65535, sat |-> 254]
LightMid == [on |-> TRUE, bri |-> 200, hue |-> 0, sat |-> 200]
LightBare == [hue |-> 30000]
LightBlank == [on |-> FALSE]

Light(i, n, s) == [id |-> i, name |-> n, state |-> s]

Env(environ, argv) == [environ |-> environ, argv |-> argv]

\* environments: the credential alone, with HUE_MOOD_MAX_SECONDS, or empty
User == [HUE_USER_ID |-> "abc12345"]
UserMax(v) == [HUE_USER_ID |-> "abc12345", HUE_MOOD_MAX_SECONDS |-> v]
NoUser == [LOG_LEVEL |-> "DEBUG"]

Target(h, s, b) == [hue |-> h, sat |-> s, bri |-> b]

World(e, ls, p) == [env |-> e, lights |-> ls, pool |-> p]

\* draws of the three-bulb runs: one target, the shortest duration
GroupPool ==
    [targets |-> {Target(100, 150, 100)}, durations |-> {50},
     cycles |-> GroupMaxCycles]

\* draws of the single-loop runs
MoodPool ==
    [targets |-> {Target(100, 150, 100), Target(65535, 254, 254),
                  Target(0, 150, 10)},
     durations |-> {50, 55, 90},
     cycles |-> MaxCycles]

\* runs of the script: a bridge that holds two lights named Billy and none
\* named Sleepy; one with all three lights and HUE_MOOD_MAX_SECONDS=nan; one
\* without HUE_USER_ID; one that holds the light Anna only
TwoBillys ==
    World(Env(UserMax("0.1"), <<>>),
          <<Light(1, "Desk", LightOn), Light(2, " BILLY ", LightMid),
            Light(3, "Anna", LightOff), Light(4, "Billy", LightOn)>>,
          GroupPool)

AllThree ==
    World(Env(UserMax("nan"), <<Eq("fast")>>),
          <<Light(1, "billy", LightMid), Light(2, "ANNA ", LightOff),
            Light(3, "Sleepy", LightBare)>>,
          GroupPool)

NoCredential ==
    World(Env(NoUser, <<>>), <<Light(1, "billy", LightMid)>>, GroupPool)

AnnaOnly ==
    World(Env(User, <<>>), <<Light(3, "Anna", LightOff)>>, GroupPool)

GroupWorlds == {TwoBillys, AllThree, NoCredential, AnnaOnly}

\* the runs in which at most one light is animated
FairWorlds == {AllThree, NoCredential, AnnaOnly}

\* the runs of one mood("Billy") call
MoodWorlds ==
    { World(Env(User, <<>>), <<Light(7, "Billy", LightMid)>>, MoodPool),
      World(Env(UserMax("10.0"), <<Eq("2.0")>>),
            <<Light(7, "billy", LightOn)>>, MoodPool),
      World(Env(UserMax("0.1"), <<>>), <<Light(7, "Billy", LightOff)>>, MoodPool),
      World(Env(UserMax("nan"), <<Eq("fast")>>),
            <<Light(7, "Billy", LightBare)>>, MoodPool),
      World(Env(NoUser, <<>>), <<Light(7, "Billy", LightMid)>>, MoodPool),
      World(Env(User, <<>>), <<Light(7, "Desk", LightOn)>>, MoodPool),
      World(Env(UserMax("10.0"),
                <<Eq("soon"), Word("--mood-max-seconds"), Word("-M"),
                  Word("0.7"), Eq("2.0x")>>),
            <<Light(7, "Billy", LightMid)>>, MoodPool),
      World(Env(UserMax("2.0"), <<Eq("fast"), Word("-M")>>),
            <<Light(7, "Billy", LightBlank)>>, MoodPool) }

TargetInRange(t) ==
    /\ t.hue \in 0..HUE_MAX
    /\ t.sat \in TGT_SAT_MIN..SAT_MAX
    /\ t.bri \in TGT_BRI_MIN..BRI_MAX

NoState == [on |-> FALSE, bri |-> 0, hue |-> 0, sat |-> 0]
NoTarget == [hue |-> 0, sat |-> 0, bri |-> 0]
NoWrite == [kind |-> "none", payload |-> <<>>, ok |-> TRUE]

InitLoops ==
    /\ pc = [b \in Bulbs |-> "idle"]
    /\ light_id = [b \in Bulbs |-> 0]
    /\ orig = [b \in Bulbs |-> NoState]
    /\ cur = [b \in Bulbs |-> NoState]
    /\ tgt = [b \in Bulbs |-> NoTarget]
    /\ steps = [b \in Bulbs |-> 0]
    /\ delta = [b \in Bulbs |-> NoTarget]
    /\ tick = [b \in Bulbs |-> 0]
    /\ cycles = [b \in Bulbs |-> 0]
    /\ error = [b \in Bulbs |-> FALSE]
    /\ sent = [b \in Bulbs |-> NoWrite]
    /\ wire = {}
    /\ nOn = [b \in Bulbs |-> 0]
    /\ nAnim = [b \in Bulbs |-> 0]
    /\ nRestore = [b \in Bulbs |-> 0]
    /\ log = [b \in Bulbs |-> ""]
    /\ max_seconds = [b \in Bulbs |-> NoValue]
    /\ t_seconds = [b \in Bulbs |-> NoValue]

\* the script has just been started: python main.py
Init ==
    /\ \E w \in GroupWorlds :
         env = w.env /\ lights = w.lights /\ pool = w.pool
    /\ mainpc = "main"
    /\ rc = -1
    /\ outcome = "none"
    /\ fetched = <<>>
    /\ cfg = NoConfig
    /\ exit_status = -1
    /\ threads = <<>>
    /\ joined = <<>>
    /\ stop_event = FALSE
    /\ InitLoops

----------------------------------------------------------------------------
(* mood(bulb_name, stop_event=stop_event): one step per network call or    *)
(* per read of the stop event                                              *)

\* a daemon thread runs only while the process does
Alive == mainpc # "exited"

Finished(b) == pc[b] \in {"returned", "raised", "done"}

\* the PUT of one animation tick
AnimWrite(c) ==
    set_light_state([on |-> TRUE, bri |-> c.bri, hue |-> c.hue, sat |-> c.sat,
                     transitiontime |-> 0])

\* the PUT of the finally block
RestoreWrite(o) ==
    set_light_state([on |-> o.on, bri |-> o.bri, hue |-> o.hue, sat |-> o.sat,
                     transitiontime |-> 0])

\* cfg = load_config(); if not user_id: raise RuntimeError
LoadConfig(b) ==
    /\ Alive /\ pc[b] = "load_config"
    /\ IF ~Falsy(load_config(env.environ).user_id)
         THEN /\ pc' = [pc EXCEPT ![b] = "resolve"]
              /\ error' = error
         ELSE /\ pc' = [pc EXCEPT ![b] = "raised"]
              /\ error' = [error EXCEPT ![b] = TRUE]
    /\ UNCHANGED <<light_id, orig, cur, tgt, steps, delta, tick, cycles,
                   sent, wire, nOn, nAnim, nRestore, log, max_seconds, t_seconds>>
    /\ UNCHANGED <<mainvars, worldvars>>

\* how a GET of the lights or of one light's state can end: a parsed body,
\* a requests.exceptions.RequestException, or an exception that is not one
\* (the ValueError of resp.json(), the AttributeError of a body that is a
\* list, the TypeError of int() on a field that is not a number)
ReadOutcomes == {"ok", "RequestException", "Exception"}

\* faulty variant: a loop that cannot resolve its light stops the whole group
ResolveAbort(b) ==
    /\ Alive /\ pc[b] = "resolve"
    /\ \E ended \in ReadOutcomes :
         LET lid == resolve_light_id_by_name(lights, b)
         IN  CASE ended = "ok" /\ lid # 0 ->
                    /\ light_id' = [light_id EXCEPT ![b] = lid]
                    /\ pc' = [pc EXCEPT ![b] = "get_state"]
                    /\ log' = log
                    /\ stop_event' = stop_event
               [] ended = "ok" /\ lid = 0 ->
                    /\ light_id' = light_id
                    /\ pc' = [pc EXCEPT ![b] = "returned"]
                    /\ log' = [log EXCEPT ![b] = "not found on the bridge"]
                    /\ stop_event' = TRUE
               [] ended = "RequestException" ->
                    /\ light_id' = light_id
                    /\ pc' = [pc EXCEPT ![b] = "returned"]
                    /\ log' = [log EXCEPT ![b] = "Failed to fetch lights"]
                    /\ stop_event' = TRUE
               [] ended = "Exception" ->
                    /\ light_id' = light_id
                    /\ pc' = [pc EXCEPT ![b] = "raised"]
                    /\ log' = log
                    /\ stop_event' = TRUE
    /\ UNCHANGED <<orig, cur, tgt, steps, delta, tick, cycles, error,
                   sent, wire, nOn, nAnim, nRestore, max_seconds, t_seconds>>
    /\ UNCHANGED <<mainpc, rc, outcome, fetched, cfg, exit_status, threads, joined>>
    /\ UNCHANGED worldvars

\* light_id = resolve_light_id_by_name(...): a RequestException or no match
\* is logged and ends the loop; any other exception leaves mood() uncaught
Resolve(b) ==
    /\ Alive /\ pc[b] = "resolve"
    /\ \E ended \in ReadOutcomes :
         LET lid == resolve_light_id_by_name(lights, b)
         IN  CASE ended = "ok" /\ lid # 0 ->
                    /\ light_id' = [light_id EXCEPT ![b] = lid]
                    /\ pc' = [pc EXCEPT ![b] = "get_state"]
                    /\ log' = log
               [] ended = "ok" /\ lid = 0 ->
                    /\ light_id' = light_id
                    /\ pc' = [pc EXCEPT ![b] = "returned"]
                    /\ log' = [log EXCEPT ![b] = "not found on the bridge"]
               [] ended = "RequestException" ->
                    /\ light_id' = light_id
                    /\ pc' = [pc EXCEPT ![b] = "returned"]
                    /\ log' = [log EXCEPT ![b] = "Failed to fetch lights"]
               [] ended = "Exception" ->
                    /\ light_id' = light_id
                    /\ pc' = [pc EXCEPT ![b] = "raised"]
                    /\ log' = log
    /\ UNCHANGED <<orig, cur, tgt, steps, delta, tick, cycles, error,
                   sent, wire, nOn, nAnim, nRestore, max_seconds, t_seconds>>
    /\ UNCHANGED <<mainvars, worldvars>>

\* faulty variant: the original is taken after the light was turned on
OrigStateOn(now) == [now EXCEPT !.on = TRUE]

\* orig_on, orig_bri, orig_hue, orig_sat = is_on, cur_bri, cur_hue, cur_sat
OrigState(now) == now

\* state = get_light_state(...); capture the current and the original state.
\* A RequestException is logged and ends the loop; any other exception
\* leaves mood() uncaught
GetState(b) ==
    /\ Alive /\ pc[b] = "get_state"
    /\ \E ended \in ReadOutcomes :
         CASE ended = "ok" ->
                LET now == ReadState(get_light_state(lights, light_id[b]))
                IN  /\ cur' = [cur EXCEPT ![b] = now]
                    /\ orig' = [orig EXCEPT ![b] = OrigState(now)]
                    /\ pc' = [pc EXCEPT ![b] =
                                 IF now.on THEN "cycle" ELSE "turn_on"]
                    /\ log' = log
           [] ended = "RequestException" ->
                /\ pc' = [pc EXCEPT ![b] = "returned"]
                /\ log' = [log EXCEPT ![b] = "Failed to get state"]
                /\ UNCHANGED <<cur, orig>>
           [] ended = "Exception" ->
                /\ pc' = [pc EXCEPT ![b] = "raised"]
                /\ log' = log
                /\ UNCHANGED <<cur, orig>>
    /\ UNCHANGED <<light_id, tgt, steps, delta, tick, cycles, error,
                   sent, wire, nOn, nAnim, nRestore, max_seconds, t_seconds>>
    /\ UNCHANGED <<mainvars, worldvars>>

\* a PUT of loop b to its light, on the wire
Put(b, kind, payload) ==
    [by |-> b, light |-> light_id[b], kind |-> kind, payload |-> payload]

\* the PUT loop b is waiting on
Pending(b) == CHOOSE m \in wire : m.by = b

\* the response (or the RequestException) that ends the PUT of loop b
Answer(b, ok) ==
    /\ sent' = [sent EXCEPT ![b] =
                   [kind |-> Pending(b).kind, ok |-> ok,
                    payload |-> Pending(b).payload]]
    /\ wire' = wire \ {Pending(b)}

\* if not is_on: set_light_state(on=True) is called
TurnOn(b) ==
    /\ Alive /\ pc[b] = "turn_on"
    /\ wire' = wire \cup {Put(b, "on", set_light_state([on |-> TRUE]))}
    /\ nOn' = [nOn EXCEPT ![b] = @ + 1]
    /\ pc' = [pc EXCEPT ![b] = "turning_on"]
    /\ UNCHANGED <<light_id, orig, cur, tgt, steps, delta, tick, cycles, error,
                   sent, nAnim, nRestore, log, max_seconds, t_seconds>>
    /\ UNCHANGED <<mainvars, worldvars>>

\* the power-on write returns; its failure is logged and ends the loop
TurnOnDone(b) ==
    /\ Alive /\ pc[b] = "turning_on"
    /\ \E ok \in BOOLEAN :
         /\ Answer(b, ok)
         /\ IF ok
              THEN /\ cur' = [cur EXCEPT ![b].on = TRUE]
                   /\ pc' = [pc EXCEPT ![b] = "cycle"]
                   /\ log' = log
              ELSE /\ cur' = cur
                   /\ pc' = [pc EXCEPT ![b] = "returned"]
                   /\ log' = [log EXCEPT ![b] = "Failed to turn on light"]
    /\ UNCHANGED <<light_id, orig, tgt, steps, delta, tick, cycles, error,
                   nOn, nAnim, nRestore, max_seconds, t_seconds>>
    /\ UNCHANGED <<mainvars, worldvars>>

\* faulty variant: no finally block, the exception leaves mood() at once
AfterCycleErrorRaise == "raised"

\* where an exception raised inside the try block goes: the finally block
AfterCycleError == "restore"

\* faulty variant: the cycle loop does not look at the stop event
CycleCheckIgnore(stop) == FALSE

\* `if stop_event.is_set(): break` at the top of `while True`
CycleCheck(stop) == stop

\* faulty variant: every cycle starts again from the original state
CycleFromOrig(b) == orig[b]

\* the state a cycle starts from: cur_hue, cur_sat, cur_bri as the previous
\* cycle (or the startup read) left them
CycleFrom(b) == cur[b]

\* top of `while True`: the stop check, then a new target and its increments
CycleStart(b) ==
    /\ Alive /\ pc[b] = "cycle"
    /\ IF CycleCheck(stop_event)
         THEN /\ pc' = [pc EXCEPT ![b] = "restore"]
              /\ UNCHANGED <<cur, tgt, steps, delta, tick, cycles, error,
                             max_seconds, t_seconds>>
         ELSE /\ cycles[b] < pool.cycles
              /\ \E t \in pool.targets :
                   /\ TargetInRange(t)
                   /\ tgt' = [tgt EXCEPT ![b] = t]
                   /\ cycles' = [cycles EXCEPT ![b] = @ + 1]
                   /\ max_seconds' =
                         [max_seconds EXCEPT ![b] = _get_mood_max_seconds(env)]
                   /\ IF max_seconds'[b].k = "nan"
                        \* uniform(0.5, nan) is nan and round(nan) raises:
                        \* the finally block runs next
                        THEN /\ t_seconds' = [t_seconds EXCEPT ![b] = NanValue]
                             /\ error' = [error EXCEPT ![b] = TRUE]
                             /\ pc' = [pc EXCEPT ![b] = AfterCycleError]
                             /\ UNCHANGED <<cur, steps, delta, tick>>
                        ELSE \E d \in pool.durations :
                               /\ d >= MIN_SECONDS
                               /\ d <= max_seconds'[b].v
                               /\ t_seconds' = [t_seconds EXCEPT ![b] = Num(d)]
                               /\ steps' = [steps EXCEPT ![b] = StepCount(d)]
                               /\ cur' = [cur EXCEPT ![b] = CycleFrom(b)]
                               /\ delta' = [delta EXCEPT ![b] =
                                     [hue |-> t.hue - cur'[b].hue,
                                      sat |-> t.sat - cur'[b].sat,
                                      bri |-> t.bri - cur'[b].bri]]
                               /\ tick' = [tick EXCEPT ![b] = 1]
                               /\ pc' = [pc EXCEPT ![b] = "tick"]
                               /\ error' = error
    /\ UNCHANGED <<light_id, orig, sent, wire, nOn, nAnim, nRestore, log>>
    /\ UNCHANGED <<mainvars, worldvars>>

\* faulty variant: the tick loop does not look at the stop event
AfterTickCheckIgnore(stop) == "write"

\* `if stop_event.is_set(): break` in the for loop, then the same test
\* after it
AfterTickCheck(stop) == IF stop THEN "restore" ELSE "write"

\* top of the for loop: the stop check of tick i
TickCheck(b) ==
    /\ Alive /\ pc[b] = "tick" /\ tick[b] <= steps[b]
    /\ pc' = [pc EXCEPT ![b] = AfterTickCheck(stop_event)]
    /\ UNCHANGED <<light_id, orig, cur, tgt, steps, delta, tick, cycles,
                   error, sent, wire, nOn, nAnim, nRestore, log, max_seconds, t_seconds>>
    /\ UNCHANGED <<mainvars, worldvars>>

\* the for loop ran out: the stop check after it, then the next cycle
ForEnd(b) ==
    /\ Alive /\ pc[b] = "tick" /\ tick[b] > steps[b]
    /\ pc' = [pc EXCEPT ![b] = IF stop_event THEN "restore" ELSE "cycle"]
    /\ UNCHANGED <<light_id, orig, cur, tgt, steps, delta, tick, cycles,
                   error, sent, wire, nOn, nAnim, nRestore, log, max_seconds, t_seconds>>
    /\ UNCHANGED <<mainvars, worldvars>>

\* one tick: advance, round, clamp
NextCur(c, d, n) ==
    [on |-> c.on,
     hue |-> Advance(c.hue, d.hue, n, 0, HUE_MAX),
     sat |-> Advance(c.sat, d.sat, n, 0, SAT_MAX),
     bri |-> Advance(c.bri, d.bri, n, BRI_MIN, BRI_MAX)]

\* body of the for loop up to the call: advance, round, clamp, and the PUT
\* of the new state goes out
TickWrite(b) ==
    /\ Alive /\ pc[b] = "write"
    /\ cur' = [cur EXCEPT ![b] = NextCur(cur[b], delta[b], steps[b])]
    /\ wire' = wire \cup {Put(b, "anim", AnimWrite(cur'[b]))}
    /\ nAnim' = [nAnim EXCEPT ![b] = @ + 1]
    /\ pc' = [pc EXCEPT ![b] = "writing"]
    /\ UNCHANGED <<light_id, orig, tgt, steps, delta, tick, cycles, error,
                   sent, nOn, nRestore, log, max_seconds, t_seconds>>
    /\ UNCHANGED <<mainvars, worldvars>>

\* faulty variant: a failed write ends the loop with the state it started
\* from
OnTickWriteErrorAbort(b) == [pcnext |-> "returned", curnext |-> orig[b]]

\* what the except clause of the tick write does to the loop: it logs
OnTickWriteError(b) == [pcnext |-> "tick", curnext |-> cur[b]]

\* the rest of the body: the write returns (an error is only logged), then
\* time.sleep(0.1)
TickDone(b) ==
    /\ Alive /\ pc[b] = "writing"
    /\ \E ok \in BOOLEAN :
         /\ Answer(b, ok)
         /\ IF ok
              THEN /\ cur' = cur
                   /\ pc' = [pc EXCEPT ![b] = "tick"]
              ELSE /\ cur' = [cur EXCEPT ![b] = OnTickWriteError(b).curnext]
                   /\ pc' = [pc EXCEPT ![b] = OnTickWriteError(b).pcnext]
    /\ tick' = [tick EXCEPT ![b] = @ + 1]
    /\ UNCHANGED <<light_id, orig, tgt, steps, delta, cycles, error,
                   nOn, nAnim, nRestore, log, max_seconds, t_seconds>>
    /\ UNCHANGED <<mainvars, worldvars>>

\* faulty variant: the finally block writes the current state back
RestoreFromCurrent(b) == cur[b]

\* the state the finally block restores
RestoreSource(b) == orig[b]

\* faulty variant: after the finally block the loop goes round again
LeaveAgain(b) == "cycle"

\* how mood() ends after the finally block: by the exception that is
\* propagating, else by falling off its end
Leave(b) == IF error[b] THEN "raised" ELSE "done"

\* finally: the restoring write goes out
Restore(b) ==
    /\ Alive /\ pc[b] = "restore"
    /\ IF restore_on_exit
         THEN /\ wire' = wire \cup
                    {Put(b, "restore", RestoreWrite(RestoreSource(b)))}
              /\ nRestore' = [nRestore EXCEPT ![b] = @ + 1]
              /\ pc' = [pc EXCEPT ![b] = "restoring"]
         ELSE /\ pc' = [pc EXCEPT ![b] = Leave(b)]
              /\ UNCHANGED <<wire, nRestore>>
    /\ UNCHANGED <<light_id, orig, cur, tgt, steps, delta, tick, cycles,
                   error, sent, nOn, nAnim, log, max_seconds, t_seconds>>
    /\ UNCHANGED <<mainvars, worldvars>>

\* faulty variant: a failed restoring write is tried again
AfterRestoreRetry(b, ok) == IF ok THEN Leave(b) ELSE "restore"

\* where the loop goes when the restoring write has returned: its failure
\* is only logged
AfterRestore(b, ok) == Leave(b)

\* the restoring write returns
RestoreDone(b) ==
    /\ Alive /\ pc[b] = "restoring"
    /\ \E ok \in BOOLEAN :
         /\ Answer(b, ok)
         /\ pc' = [pc EXCEPT ![b] = AfterRestore(b, ok)]
    /\ UNCHANGED <<light_id, orig, cur, tgt, steps, delta, tick, cycles,
                   error, nOn, nAnim, nRestore, log, max_seconds, t_seconds>>
    /\ UNCHANGED <<mainvars, worldvars>>

Loop(b) ==
    \/ LoadConfig(b)
    \/ Resolve(b)
    \/ GetState(b)
    \/ TurnOn(b)
    \/ TurnOnDone(b)
    \/ CycleStart(b)
    \/ TickCheck(b)
    \/ ForEnd(b)
    \/ TickWrite(b)
    \/ TickDone(b)
    \/ Restore(b)
    \/ RestoreDone(b)

----------------------------------------------------------------------------
(* The main thread: main(), then run_mood_application()                    *)

\* how requests.get and resp.json() can end in fetch_bridge_state
FetchOutcomes == {"ok", "RequestException", "ValueError"}

\* main(): 1 without HUE_USER_ID, else 0, 2 or 3 by how the fetch ended
main(c, ended) ==
    IF Falsy(c.user_id) THEN 1
    ELSE CASE ended = "ok" -> 0
           [] ended = "RequestException" -> 2
           [] ended = "ValueError" -> 3

\* faulty variant: the fetch is made before the credential is looked at
MainFetchesEager(c) ==
    <<[url |-> build_base_url(c.user_id, c.bridge_ip), timeout |-> c.timeout]>>

\* the requests.get calls of main(): none without HUE_USER_ID, else one
\* for the base URL with the configured timeout
MainFetches(c) ==
    IF Falsy(c.user_id) THEN <<>>
    ELSE <<[url |-> build_base_url(c.user_id, c.bridge_ip),
            timeout |-> c.timeout]>>

\* `main()` at the bottom of the script (or a caller's main.main())
Main ==
    /\ mainpc = "main"
    /\ cfg' = load_config(env.environ)
    /\ fetched' = fetched \o MainFetches(cfg')
    /\ IF fetched' = fetched
         THEN outcome' = "none"
         ELSE outcome' \in FetchOutcomes
    /\ rc' = main(cfg', outcome')
    /\ mainpc' = "spawn"
    /\ UNCHANGED <<exit_status, threads, joined, stop_event>>
    /\ UNCHANGED <<loopvars, worldvars>>

\* t = start_mood_thread(name, stop_event); threads.append(t); the value
\* main() returned was never kept
StartThread ==
    /\ mainpc = "spawn"
    /\ LET name == bulbs[Len(threads) + 1]
       IN  /\ threads' = Append(threads, name)
           /\ pc' = [pc EXCEPT ![name] = "load_config"]
    /\ mainpc' = IF Len(threads') = Len(bulbs) THEN "wait" ELSE "spawn"
    /\ rc' = -1
    /\ outcome' = "none"
    /\ UNCHANGED <<fetched, cfg, exit_status, joined, stop_event>>
    /\ UNCHANGED <<light_id, orig, cur, tgt, steps, delta, tick, cycles,
                   error, sent, wire, nOn, nAnim, nRestore, log, max_seconds, t_seconds>>
    /\ UNCHANGED worldvars

\* _wait_for_escape_or_sigint() returns: ESC or Ctrl-C
StopTrigger ==
    /\ mainpc = "wait"
    /\ mainpc' = "set"
    /\ UNCHANGED <<rc, outcome, fetched, cfg, exit_status, threads, joined, stop_event>>
    /\ UNCHANGED <<loopvars, worldvars>>

\* stop_event.set()
SetStop ==
    /\ mainpc = "set"
    /\ stop_event' = TRUE
    /\ mainpc' = "join"
    /\ UNCHANGED <<rc, outcome, fetched, cfg, exit_status, threads, joined>>
    /\ UNCHANGED <<loopvars, worldvars>>

\* how t.join(timeout=10.0) ends for a thread that has or has not finished
JoinOutcome(done) == IF done THEN "finished" ELSE "timeout"

\* faulty variant: t.join() without a timeout
JoinNoTimeout ==
    /\ mainpc = "join"
    /\ Len(joined) < Len(threads)
    /\ Finished(threads[Len(joined) + 1])
    /\ joined' = Append(joined, "finished")
    /\ UNCHANGED <<mainpc, rc, outcome, fetched, cfg, exit_status, threads, stop_event>>
    /\ UNCHANGED <<loopvars, worldvars>>

\* t.join(timeout=10.0) for the next thread of the list
Join ==
    /\ mainpc = "join"
    /\ Len(joined) < Len(threads)
    /\ joined' = Append(joined, JoinOutcome(Finished(threads[Len(joined) + 1])))
    /\ UNCHANGED <<mainpc, rc, outcome, fetched, cfg, exit_status, threads, stop_event>>
    /\ UNCHANGED <<loopvars, worldvars>>

\* run_mood_application returns once the for loop over threads is done
Return ==
    /\ mainpc = "join"
    /\ Len(joined) = Len(threads)
    /\ mainpc' = "returned"
    /\ UNCHANGED <<rc, outcome, fetched, cfg, exit_status, threads, joined, stop_event>>
    /\ UNCHANGED <<loopvars, worldvars>>

\* the exit status of the script, which runs off its end
ExitStatus == 0

\* the script ends; the daemon threads end with the process
Exit ==
    /\ mainpc = "returned"
    /\ mainpc' = "exited"
    /\ exit_status' = ExitStatus
    /\ UNCHANGED <<rc, outcome, fetched, cfg, threads, joined, stop_event>>
    /\ UNCHANGED <<loopvars, worldvars>>

Next ==
    \/ Main
    \/ StartThread
    \/ StopTrigger
    \/ SetStop
    \/ Join
    \/ Return
    \/ Exit
    \/ \E b \in Bulbs : Loop(b)

Spec == Init /\ [][Next]_vars

\* the script on a bridge where at most one light is animated
FairInit ==
    /\ \E w \in FairWorlds :
         env = w.env /\ lights = w.lights /\ pool = w.pool
    /\ mainpc = "main"
    /\ rc = -1
    /\ outcome = "none"
    /\ fetched = <<>>
    /\ cfg = NoConfig
    /\ exit_status = -1
    /\ threads = <<>>
    /\ joined = <<>>
    /\ stop_event = FALSE
    /\ InitLoops

\* the main thread keeps running: after the stop trigger none of its
\* statements blocks for longer than a join timeout.  Nothing is assumed
\* about the loops, whose network calls may hang.
FairSpec ==
    /\ FairInit
    /\ [][Next]_vars
    /\ WF_vars(SetStop)
    /\ WF_vars(Join)
    /\ WF_vars(Return)
    /\ WF_vars(Exit)

----------------------------------------------------------------------------
(* One mood() call on its own: a caller that imported the module started   *)
(* start_mood_thread("Billy", stop_event) and sets the event when it likes *)

MoodInit ==
    /\ \E w \in MoodWorlds :
         env = w.env /\ lights = w.lights /\ pool = w.pool
    /\ mainpc = "caller"
    /\ rc = -1
    /\ outcome = "none"
    /\ fetched = <<>>
    /\ cfg = NoConfig
    /\ exit_status = -1
    /\ threads = <<"Billy">>
    /\ joined = <<>>
    /\ stop_event = FALSE
    /\ pc = [b \in Bulbs |-> IF b = "Billy" THEN "load_config" ELSE "idle"]
    /\ light_id = [b \in Bulbs |-> 0]
    /\ orig = [b \in Bulbs |-> NoState]
    /\ cur = [b \in Bulbs |-> NoState]
    /\ tgt = [b \in Bulbs |-> NoTarget]
    /\ steps = [b \in Bulbs |-> 0]
    /\ delta = [b \in Bulbs |-> NoTarget]
    /\ tick = [b \in Bulbs |-> 0]
    /\ cycles = [b \in Bulbs |-> 0]
    /\ error = [b \in Bulbs |-> FALSE]
    /\ sent = [b \in Bulbs |-> NoWrite]
    /\ wire = {}
    /\ nOn = [b \in Bulbs |-> 0]
    /\ nAnim = [b \in Bulbs |-> 0]
    /\ nRestore = [b \in Bulbs |-> 0]
    /\ log = [b \in Bulbs |-> ""]
    /\ max_seconds = [b \in Bulbs |-> NoValue]
    /\ t_seconds = [b \in Bulbs |-> NoValue]

\* the caller's stop_event.set()
CallerStop ==
    /\ mainpc = "caller"
    /\ ~stop_event
    /\ stop_event' = TRUE
    /\ UNCHANGED <<mainpc, rc, outcome, fetched, cfg, exit_status, threads, joined>>
    /\ UNCHANGED <<loopvars, worldvars>>

MoodNext ==
    \/ CallerStop
    \/ Loop("Billy")

MoodSpec == MoodInit /\ [][MoodNext]_vars

\* a caller of main.main() alone, as the tests call it, over environments
\* that set or leave out each configuration variable
Setting(key, v) == IF v = None THEN <<>> ELSE key :> v

ConfigEnvs ==
    { Setting("HUE_USER_ID", u) @@ Setting("HUE_BRIDGE_IP", ip)
        @@ Setting("LOG_LEVEL", lv) @@ Setting("REQUEST_TIMEOUT", t) :
        u \in {None, "", "user1234"}, ip \in {None, "10.1.2.3"},
        lv \in {None, "DEBUG"}, t \in {None, "7.5", "0.5", "abc", ""} }

MainInit ==
    /\ \E e \in ConfigEnvs :
          /\ env = Env(e, <<>>)
          /\ lights = <<Light(7, "Billy", LightMid)>>
          /\ pool = MoodPool
    /\ mainpc = "main"
    /\ rc = -1
    /\ outcome = "none"
    /\ fetched = <<>>
    /\ cfg = NoConfig
    /\ exit_status = -1
    /\ threads = <<>>
    /\ joined = {}
    /\ stop_event = FALSE
    /\ InitLoops

MainNext == Main

MainSpec == MainInit /\ [][MainNext]_vars


----------------------------------------------------------------------------
(* Properties *)

\* the loop of bulb b completed startup and entered `while True`
Entered(b) ==
    \/ pc[b] \in {"cycle", "tick", "write", "writing", "restore", "restoring",
                 "done"}
    \/ pc[b] = "raised" /\ cycles[b] > 0

\* the state mood() captured at startup, recomputed from the bridge
Captured(b) == ReadState(get_light_state(lights, light_id[b]))

\* the last PUT of bulb b carries exactly the state o, immediately
IsWriteOf(b, o) ==
    /\ DOMAIN sent[b].payload = {"on", "bri", "hue", "sat", "transitiontime"}
    /\ sent[b].payload.on = o.on
    /\ sent[b].payload.bri = o.bri
    /\ sent[b].payload.hue = o.hue
    /\ sent[b].payload.sat = o.sat
    /\ sent[b].payload.transitiontime = 0

\* C1: the restoration write of a loop carries exactly the on, brightness,
\* hue and saturation read from the bridge at startup, whatever the cycles
\* and ticks did to the current state in between.
C1_RestoreSendsOriginal ==
    \A b \in Bulbs :
        /\ Entered(b) => orig[b] = Captured(b)
        /\ sent[b].kind = "restore" => IsWriteOf(b, Captured(b))

\* C1 witness: a restoration after two cycles that moved the light away
C1_Witness ==
    /\ sent["Billy"].kind = "restore"
    /\ cycles["Billy"] >= 2
    /\ nAnim["Billy"] >= 10
    /\ cur["Billy"].hue # orig["Billy"].hue
    /\ cur["Billy"].bri # orig["Billy"].bri

\* C2: a loop that entered the cycle loop has issued exactly one restoration
\* write once it has ended, and none before; a loop that never entered the
\* cycle loop issues none.
C2_OneRestoreOnExit ==
    \A b \in Bulbs :
        nRestore[b] =
            IF Entered(b) /\ (Finished(b) \/ pc[b] = "restoring") THEN 1 ELSE 0

\* C2 witness: the cycle loop was left by an exception, and the restoration
\* write went out before the exception left mood()
C2_Witness ==
    /\ pc["Billy"] = "raised"
    /\ error["Billy"]
    /\ cycles["Billy"] = 1
    /\ nRestore["Billy"] = 1
    /\ sent["Billy"].kind = "restore"

\* the stop event is set and the loop of b is not past a stop check with its
\* write still to come
Stopping(b) ==
    /\ stop_event
    /\ pc[b] \in {"cycle", "tick", "writing", "restore", "restoring", "done",
                 "raised"}

\* C3: once the stop event is set between two ticks, the loop issues no
\* further animation write and samples no further target; the only write
\* left is one restoration write, and it carries the captured original.
C3_CancelMidCycle ==
    [][\A b \in Bulbs :
          Stopping(b) =>
              /\ Stopping(b)'
              /\ nAnim'[b] = nAnim[b]
              /\ cycles'[b] = cycles[b]
              /\ tgt'[b] = tgt[b]
              /\ cur'[b] = cur[b]
              /\ nRestore'[b] <= 1
              /\ (Finished(b)' /\ ~Finished(b)) =>
                    /\ nRestore'[b] = 1
                    /\ sent'[b].kind = "restore"
                    /\ IsWriteOf(b, orig[b])']_vars

\* C3 witness: stopped after tick 3 of a 9-tick cycle, restored to the
\* original, which differs from the state tick 3 left
C3_Witness ==
    /\ stop_event
    /\ pc["Billy"] = "done"
    /\ steps["Billy"] = 9
    /\ tick["Billy"] = 4
    /\ nAnim["Billy"] = 3
    /\ nRestore["Billy"] = 1
    /\ IsWriteOf("Billy", orig["Billy"])
    /\ cur["Billy"].hue # orig["Billy"].hue

InRange(c) ==
    /\ c.hue \in 0..HUE_MAX
    /\ c.sat \in 0..SAT_MAX
    /\ c.bri \in BRI_MIN..BRI_MAX

\* C7: the state every tick computes and writes has hue in 0..65535,
\* saturation in 0..254 and brightness in 1..254.
C7_AnimationInRange ==
    \A b \in Bulbs :
        /\ Entered(b) => InRange(cur[b])
        /\ sent[b].kind = "anim" => InRange(sent[b].payload)
        /\ \A m \in wire :
              (m.by = b /\ m.kind = "anim") =>
                  /\ InRange(m.payload)
                  /\ m.payload.hue = cur[b].hue
                  /\ m.payload.sat = cur[b].sat
                  /\ m.payload.bri = cur[b].bri

\* C7 witness: ticks have been written and the next one lands beyond the
\* hue, saturation and brightness ranges before it is clamped
C7_Witness ==
    /\ pc["Billy"] = "write"
    /\ sent["Billy"].kind = "anim"
    /\ Round(cur["Billy"].hue * steps["Billy"] + delta["Billy"].hue,
             steps["Billy"]) > HUE_MAX
    /\ Round(cur["Billy"].sat * steps["Billy"] + delta["Billy"].sat,
             steps["Billy"]) > SAT_MAX
    /\ Round(cur["Billy"].bri * steps["Billy"] + delta["Billy"].bri,
             steps["Billy"]) > BRI_MAX

\* C8: a failed animation write neither ends the loop nor rolls the local
\* state back: the step that fails leaves the advanced values in place and
\* returns to the top of the tick loop, and the loop is still running (and
\* still ends with one restoration write).
C8_FailedWriteContinues ==
    /\ [][\A b \in Bulbs :
             (pc[b] = "writing" /\ pc'[b] # "writing" /\ ~sent'[b].ok) =>
                 /\ sent'[b].kind = "anim"
                 /\ pc'[b] = "tick"
                 /\ tick'[b] = tick[b] + 1
                 /\ cur'[b] = cur[b]
                 /\ IsWriteOf(b, [cur[b] EXCEPT !.on = TRUE])']_vars
    /\ [](\A b \in Bulbs :
             /\ (sent[b].kind = "anim" /\ ~sent[b].ok) => ~Finished(b)
             /\ (Entered(b) /\ Finished(b)) => nRestore[b] = 1)

\* C8 witness: the write of a tick failed, the loop passed the next stop
\* check and is about to compute the next tick from the advanced state
C8_Witness ==
    /\ pc["Billy"] = "write"
    /\ sent["Billy"].kind = "anim"
    /\ ~sent["Billy"].ok
    /\ tick["Billy"] = 3
    /\ cur["Billy"].hue # orig["Billy"].hue

\* channel value after k ticks of an n-tick cycle with exact accumulation
Exact(start, d, k, n, lo, hi) == _clamp(Round(start * n + k * d, n), lo, hi)

\* C9: within a cycle, after tick k each channel equals the rounded, clamped
\* value of start + k * (target - start) / steps, hence the target after
\* the last tick.
C9_NoDrift ==
    \A b \in Bulbs :
        (pc[b] = "tick" /\ steps[b] > 0) =>
            LET k == tick[b] - 1
                n == steps[b]
            IN  /\ cur[b].hue =
                     Exact(tgt[b].hue - delta[b].hue, delta[b].hue, k, n, 0, HUE_MAX)
                /\ cur[b].sat =
                     Exact(tgt[b].sat - delta[b].sat, delta[b].sat, k, n, 0, SAT_MAX)
                /\ cur[b].bri =
                     Exact(tgt[b].bri - delta[b].bri, delta[b].bri, k, n,
                           BRI_MIN, BRI_MAX)
                /\ k = n => /\ cur[b].hue = tgt[b].hue
                            /\ cur[b].sat = tgt[b].sat
                            /\ cur[b].bri = tgt[b].bri

----------------------------------------------------------------------------
(* Properties of the group *)

\* the loop of b ended at startup or by an exception
Failed(b) == pc[b] \in {"returned", "raised"}

\* everything the loop of b owns
LoopState(b) ==
    <<pc[b], light_id[b], orig[b], cur[b], tgt[b], steps[b], delta[b],
      tick[b], cycles[b], error[b], sent[b], nOn[b], nAnim[b], nRestore[b],
      log[b], max_seconds[b], t_seconds[b], {m \in wire : m.by = b}>>

\* the loop of b is running and is not held back by the bound on cycles
Running(b) ==
    /\ Alive
    /\ pc[b] # "idle"
    /\ ~Finished(b)
    /\ ~(pc[b] = "cycle" /\ ~stop_event /\ cycles[b] >= pool.cycles)

MainStep == Main \/ StartThread \/ SetStop \/ Join \/ Return \/ Exit

\* C4: the step in which one loop fails changes nothing of any other loop
\* and nothing of the group (the stop event included); whatever has failed,
\* every other running loop can take its next step, all configured loops
\* get started, and the main thread can always go on to its stop and join
\* phase.
C4_Independence ==
    /\ [][\A b \in Bulbs :
             (~Failed(b) /\ Failed(b)') =>
                 /\ mainvars' = mainvars
                 /\ \A o \in Bulbs \ {b} : LoopState(o)' = LoopState(o)]_vars
    /\ [](/\ mainpc \in {"wait", "set", "join", "returned", "exited"}
             => threads = bulbs
          /\ \A o \in Bulbs : Running(o) => ENABLED Loop(o)
          /\ mainpc = "wait" => ENABLED StopTrigger
          /\ mainpc \notin {"wait", "exited"} => ENABLED MainStep)

\* C4 witness: "Sleepy" was not found on the bridge; "Billy" and "Anna"
\* animated and restored, and run_mood_application returned
C4_Witness ==
    /\ pc["Sleepy"] = "returned"
    /\ light_id["Sleepy"] = 0
    /\ \A b \in {"Billy", "Anna"} :
          /\ pc[b] = "done"
          /\ nAnim[b] >= 5
          /\ nRestore[b] = 1
          /\ sent[b].ok
    /\ mainpc = "returned"

C6_BoundedShutdown ==
    /\ [](/\ (mainpc \in {"join", "returned", "exited"} \/ Len(joined) > 0)
             => stop_event
          /\ mainpc \in {"returned", "exited"} =>
                /\ Len(joined) = Len(bulbs)
                /\ threads = bulbs
                /\ \A k \in 1..Len(joined) :
                      /\ joined[k] \in {"finished", "timeout"}
                      /\ joined[k] = "finished" => Finished(threads[k]))
    /\ (mainpc = "set") ~> (mainpc \in {"returned", "exited"})

\* C6 witness: run_mood_application returned although a loop it timed out
\* on is still before its restoration write
C6_Witness ==
    /\ mainpc = "returned"
    /\ \E k \in 1..Len(joined) :
          /\ joined[k] = "timeout"
          /\ Entered(threads[k])
          /\ ~Finished(threads[k])
          /\ nRestore[threads[k]] = 0

\* C10: without HUE_USER_ID the process ends with a non-zero exit status
\* and has started no loop; otherwise a session that was stopped ends with
\* exit status 0.
C10_ExitStatus ==
    mainpc = "exited" =>
        IF ~Falsy(load_config(env.environ).user_id)
          THEN exit_status = 0
          ELSE exit_status # 0 /\ threads = <<>>

\* what C11 says of a main() that has returned, `missing` telling whether
\* the credential counts as missing
MainContract(missing) ==
    IF missing
      THEN rc = 1 /\ fetched = <<>>
      ELSE /\ Len(fetched) = 1
           /\ fetched[1].url =
                <<"http://",
                  getenv(env.environ, "HUE_BRIDGE_IP", "192.168.1.2"),
                  "/api/", env.environ["HUE_USER_ID"], "/">>
           /\ fetched[1].timeout = cfg.timeout
           /\ outcome \in {"ok", "RequestException", "ValueError"}
           /\ outcome = "ok" => rc = 0
           /\ outcome = "RequestException" => rc = 2
           /\ outcome = "ValueError" => rc = 3

\* C11 as claimed: main() returns 1 without a network request when
\* HUE_USER_ID is unset; in every other case it makes exactly one fetch of
\* the base URL with the configured timeout and returns 0, 2 or 3 by
\* success, network error, unparseable response.
C11_UnsetOnly ==
    mainpc = "spawn" /\ rc # -1 =>
        MainContract("HUE_USER_ID" \notin DOMAIN env.environ)

\* C11 as amended: the same, with HUE_USER_ID unset or set to the empty
\* string as the case that returns 1 without a request.
C11_MainStatus ==
    mainpc = "spawn" /\ rc # -1 =>
        MainContract("HUE_USER_ID" \notin DOMAIN env.environ
                     \/ getenv(env.environ, "HUE_USER_ID", "") = "")

\* C11 witness: one fetch of http://10.1.2.3/api/user1234/ with timeout 0.5
\* was answered by a body that does not parse, and main() returned 3
C11_Witness ==
    /\ mainpc = "spawn"
    /\ rc = 3
    /\ fetched = <<[url |-> <<"http://", "10.1.2.3", "/api/", "user1234", "/">>,
                    timeout |-> Num(50)]>>

\* C18: load_config gives timeout 5.0 for a REQUEST_TIMEOUT that is not a
\* number, the parsed value for one that is, and user_id None, bridge_ip
\* 192.168.1.2, log_level INFO, timeout 5.0 for an empty environment.
C18_LoadConfig ==
    mainpc = "spawn" =>
        LET e == env.environ
            raw == getenv(e, "REQUEST_TIMEOUT", None)
        IN  /\ raw \in {"abc", ""} => cfg.timeout = Num(500)
            /\ raw = "7.5" => cfg.timeout = Num(750)
            /\ raw = "0.5" => cfg.timeout = Num(50)
            /\ cfg.timeout.k = "num"
            /\ DOMAIN e = {} =>
                  cfg = [user_id |-> None, bridge_ip |-> "192.168.1.2",
                         log_level |-> "INFO", timeout |-> Num(500)]

\* C18 witness: load_config has run with REQUEST_TIMEOUT=abc and returned
\* timeout 5.0 next to the other settings
C18_Witness ==
    /\ mainpc = "spawn"
    /\ getenv(env.environ, "REQUEST_TIMEOUT", None) = "abc"
    /\ cfg.timeout = Num(500)
    /\ cfg.log_level = "DEBUG"

\* the step in which the startup of loop b fails: the lights fetch, the
\* name lookup, the state read or the power-on write ends the loop
StartupFails(b) ==
    /\ pc[b] \in {"resolve", "get_state", "turn_on"}
    /\ pc'[b] \in {"returned", "raised"}

\* C12: a loop whose startup fails (name not found, lights fetch failed,
\* state read failed by transport or parse failure, power-on write failed)
\* logs the failure and returns, has issued no animation write and no
\* restoration write, and issues none afterwards.
C12_StartupFailure ==
    [][\A b \in Bulbs :
          /\ StartupFails(b) =>
                /\ pc'[b] = "returned"
                /\ log[b] = "" /\ log'[b] # ""
                /\ nAnim'[b] = 0 /\ nRestore'[b] = 0
          /\ (pc[b] \in {"returned", "raised"} /\ nRestore[b] = 0) =>
                /\ pc'[b] = pc[b]
                /\ nAnim'[b] = nAnim[b] /\ nRestore'[b] = 0]_vars

\* the value of HUE_MOOD_MAX_SECONDS, None when it is not set
MoodEnv == getenv(env.environ, "HUE_MOOD_MAX_SECONDS", None)

\* C13: the max_seconds a cycle resolves is the command-line override if one
\* parses, else HUE_MOOD_MAX_SECONDS, else 30.0, and never below 0.5:
\* override 2.0 with environment 10.0 gives 2.0, environment 0.1 alone gives
\* 0.5, neither gives 30.0, and an override that does not parse falls
\* through to the next form of the override and then to the environment.
C13_MaxSecondsPriority ==
    \A b \in Bulbs :
        cycles[b] > 0 =>
            LET m == max_seconds[b]
            IN  /\ m.k \in {"num", "nan"}
                /\ m.k = "num" => m.v >= 50
                /\ (env.argv = <<Eq("2.0")>> /\ MoodEnv = "10.0") => m = Num(200)
                /\ (env.argv = <<>> /\ MoodEnv = "0.1") => m = Num(50)
                /\ (env.argv = <<>> /\ MoodEnv = None) => m = Num(3000)
                /\ (env.argv = <<Eq("fast"), Word("-M")>> /\ MoodEnv = "2.0")
                      => m = Num(200)
                /\ (/\ env.argv = <<Eq("soon"), Word("--mood-max-seconds"),
                                   Word("-M"), Word("0.7"), Eq("2.0x")>>
                    /\ MoodEnv = "10.0") => m = Num(70)

\* C13 witness: a cycle ran with --mood-max-seconds=2.0 on the command line
\* and HUE_MOOD_MAX_SECONDS=10.0, and resolved 2.0
C13_Witness ==
    /\ env.argv = <<Eq("2.0")>>
    /\ MoodEnv = "10.0"
    /\ cycles["Billy"] = 2
    /\ max_seconds["Billy"] = Num(200)
    /\ t_seconds["Billy"] = Num(90)

\* C14: the stop event is looked at at the top of every cycle and of every
\* tick, and a loop that sees it set goes to its restoration; so once the
\* event is set a loop issues at most one more animation write, the one of
\* a tick whose stop check it had already passed.
C14_OneMoreWrite ==
    [][\A b \in Bulbs :
          stop_event =>
              /\ stop_event'
              /\ (pc[b] \in {"cycle", "tick"} /\ pc'[b] # pc[b]) =>
                    pc'[b] = "restore"
              /\ nAnim'[b] # nAnim[b] =>
                    /\ pc[b] = "write"
                    /\ nAnim'[b] = nAnim[b] + 1
                    /\ Stopping(b)'
              /\ Stopping(b) => Stopping(b)' /\ nAnim'[b] = nAnim[b]]_vars

\* C14 witness: the stop event was set after the loop passed the stop check
\* of tick 4, whose write is the one still to come
C14_Witness ==
    /\ stop_event
    /\ pc["Billy"] = "write"
    /\ tick["Billy"] = 4
    /\ nAnim["Billy"] = 3
    /\ sent["Billy"].kind = "anim"

\* number of PUTs loop b has issued
Issued(b) == nOn[b] + nAnim[b] + nRestore[b]

\* C15: no two writes on the wire go to the same device or come from the
\* same loop; a write on the wire goes to the light its loop resolved, and
\* no two loops resolved the same light; a loop issues a write (the next
\* tick's or the restoration) only when its previous write has been
\* answered and the pause after it is over.  Writes of different loops are
\* not ordered (the witness has two on the wire at once).
C15_WritesSerialised ==
    /\ [](/\ \A m1, m2 \in wire :
                m1 # m2 => m1.light # m2.light /\ m1.by # m2.by
          /\ \A m \in wire :
                /\ m.light = light_id[m.by]
                /\ m.light # 0
                /\ pc[m.by] \in {"turning_on", "writing", "restoring"}
          /\ \A b1, b2 \in Bulbs :
                (b1 # b2 /\ light_id[b1] # 0) => light_id[b1] # light_id[b2])
    /\ [][\A b \in Bulbs :
             Issued(b)' # Issued(b) =>
                 /\ Issued(b)' = Issued(b) + 1
                 /\ \A m \in wire : m.by # b
                 /\ pc[b] \in {"turn_on", "write", "restore"}
                 /\ \E m \in wire' : m.by = b]_vars

\* C15 witness: an animation write of "Billy" to light 2 and one of "Anna"
\* to light 3 are on the wire at the same time
C15_Witness ==
    /\ \E m \in wire : m.by = "Billy" /\ m.light = 2 /\ m.kind = "anim"
    /\ \E m \in wire : m.by = "Anna" /\ m.light = 3 /\ m.kind = "anim"
    /\ nAnim["Billy"] = 2
    /\ nAnim["Anna"] = 4

\* C16: the step count of a cycle is the duration divided by 0.1 s and
\* rounded to the nearest integer, at least 1 (0.5 s gives 5), for every
\* duration from 0.5 s to max_seconds; the increments are divided by it.
C16_StepCount ==
    \A b \in Bulbs :
        (pc[b] \in {"tick", "write", "writing"} /\ t_seconds[b].k = "num") =>
            LET t == t_seconds[b].v
            IN  /\ t >= 50 /\ t <= max_seconds[b].v
                /\ steps[b] >= 1
                /\ 10 * steps[b] - 5 <= t /\ t <= 10 * steps[b] + 5
                /\ t = 50 => steps[b] = 5
                /\ t = 55 => steps[b] = 6
                /\ t = 90 => steps[b] = 9

\* C16 witness: HUE_MOOD_MAX_SECONDS=0.1 gave max_seconds 0.5, the cycle
\* lasts 0.5 s and has 5 steps
C16_Witness ==
    /\ MoodEnv = "0.1"
    /\ pc["Billy"] = "tick"
    /\ max_seconds["Billy"] = Num(50)
    /\ t_seconds["Billy"] = Num(50)
    /\ steps["Billy"] = 5

\* ticks of the current cycle whose values are in cur
Advanced(b) == IF pc[b] = "writing" THEN tick[b] ELSE tick[b] - 1

\* C17: in a cycle whose distance is a whole multiple of the step count on a
\* channel, every tick moves that channel by exactly the increment, so tick
\* k leaves start + k * increment and the last tick leaves the target: from
\* hue 0, saturation 200, brightness 200 to (100, 150, 100) in 5 steps, the
\* increments are (20, -10, -20) and tick 1 leaves (20, 190, 180).
C17_ExactIncrements ==
    \A b \in Bulbs :
        (pc[b] \in {"tick", "write", "writing"} /\ steps[b] > 0) =>
            LET k == Advanced(b)
                n == steps[b]
                At(ch) == (tgt[b][ch] - delta[b][ch])
                              + k * (delta[b][ch] \div n)
            IN  /\ \A ch \in {"hue", "sat", "bri"} :
                      delta[b][ch] % n = 0 => cur[b][ch] = At(ch)
                /\ (/\ tgt[b] = Target(100, 150, 100)
                    /\ delta[b] = [hue |-> 100, sat |-> -50, bri |-> -100]
                    /\ n = 5 /\ k = 1)
                      => /\ cur[b].hue = 20
                         /\ cur[b].sat = 190
                         /\ cur[b].bri = 180

\* C17 witness: tick 1 of the cycle from (0, 200, 200) to (100, 150, 100)
\* in 5 steps has been written and left (20, 190, 180)
C17_Witness ==
    /\ pc["Billy"] = "tick"
    /\ tick["Billy"] = 2
    /\ steps["Billy"] = 5
    /\ orig["Billy"] = [on |-> TRUE, bri |-> 200, hue |-> 0, sat |-> 200]
    /\ cycles["Billy"] = 1
    /\ tgt["Billy"] = Target(100, 150, 100)
    /\ sent["Billy"].ok
    /\ sent["Billy"].payload.hue = 20
    /\ sent["Billy"].payload.sat = 190
    /\ sent["Billy"].payload.bri = 180

\* what the bridge holds for the light of loop b
BridgeState(b) == get_light_state(lights, light_id[b])

\* the light of loop b was off (or gave no "on") when the loop read it
WasOff(b) == light_id[b] # 0 /\ ~Get(BridgeState(b), "on", FALSE)

\* every restoration write of loop b, on the wire or answered
RestoreWrites(b) ==
    {m.payload : m \in {w \in wire : w.by = b /\ w.kind = "restore"}}
        \cup (IF sent[b].kind = "restore" THEN {sent[b].payload} ELSE {})

\* C19: the original state is in place before the power-on write goes out
\* and is not changed by it; a light that was off gets exactly one power-on
\* write, answered before the first animation write, and a light that was
\* on gets none; the restoration of a light that was off carries on = false
\* and the brightness, hue and saturation read at startup, 200, 0 and 200
\* where the bridge gave none.
C19_OffLight ==
    /\ [](\A b \in Bulbs :
             /\ nOn[b] = IF WasOff(b) /\ (Entered(b) \/ pc[b] = "turning_on"
                                          \/ log[b] = "Failed to turn on light")
                           THEN 1 ELSE 0
             /\ nOn[b] > 0 => orig[b] = ReadState(BridgeState(b))
             /\ pc[b] = "turning_on" => nAnim[b] = 0
             /\ (WasOff(b) /\ nAnim[b] > 0) =>
                   /\ nOn[b] = 1
                   /\ \A m \in wire : ~(m.by = b /\ m.kind = "on")
             /\ WasOff(b) =>
                   \A w \in RestoreWrites(b) :
                       /\ w.on = FALSE
                       /\ w.bri = Get(BridgeState(b), "bri", 200)
                       /\ w.hue = Get(BridgeState(b), "hue", 0)
                       /\ w.sat = Get(BridgeState(b), "sat", 200))
    /\ [][\A b \in Bulbs :
             nOn'[b] # nOn[b] =>
                 /\ orig[b] = ReadState(BridgeState(b))
                 /\ orig'[b] = orig[b]
                 /\ ~orig[b].on
                 /\ nAnim[b] = 0
                 /\ \E m \in wire' : m.by = b /\ m.payload = [on |-> TRUE]]_vars

\* C19 witness: a light that was off and gave only "on" was turned on,
\* animated, and restored with on = false, brightness 200, hue 0,
\* saturation 200
C19_Witness ==
    /\ pc["Billy"] = "done"
    /\ DOMAIN BridgeState("Billy") = {"on"}
    /\ nOn["Billy"] = 1
    /\ nAnim["Billy"] >= 5
    /\ sent["Billy"].kind = "restore"
    /\ sent["Billy"].payload =
          [on |-> FALSE, bri |-> 200, hue |-> 0, sat |-> 200,
           transitiontime |-> 0]

\* C20: a restoration write that fails is not tried again: the step in which
\* it fails ends the loop with one restoration write issued, raises nothing
\* (the loop ends by an exception only if one was already on its way out of
\* the cycle loop), and a loop that has ended never moves again.
C20_RestoreFailureDropped ==
    [][\A b \in Bulbs :
          /\ (pc[b] = "restoring" /\ pc'[b] # "restoring" /\ ~sent'[b].ok) =>
                /\ sent'[b].kind = "restore"
                /\ Finished(b)'
                /\ pc'[b] = IF error[b] THEN "raised" ELSE "done"
                /\ error'[b] = error[b]
                /\ nRestore'[b] = 1
                /\ \A m \in wire' : m.by # b
          /\ Finished(b) => LoopState(b)' = LoopState(b)]_vars

\* C20 witness: the loop animated, its restoration write failed, and mood()
\* returned normally with that one restoration write issued
C20_Witness ==
    /\ pc["Billy"] = "done"
    /\ ~error["Billy"]
    /\ nAnim["Billy"] >= 5
    /\ nRestore["Billy"] = 1
    /\ sent["Billy"].kind = "restore"
    /\ ~sent["Billy"].ok

\* C21: between the last tick of a cycle and the first tick of the next
\* the current hue, saturation and brightness do not change: the step that
\* leaves the for loop and the step that starts a cycle keep them (and the
\* original, the light and the writes issued), the new cycle's increments
\* are the distance from them to the new target, and its first tick is
\* computed from them.
C21_CarryForward ==
    [][\A b \in Bulbs :
          /\ (pc[b] = "tick" /\ pc'[b] = "cycle") =>
                /\ cur'[b] = cur[b]
                /\ orig'[b] = orig[b]
                /\ nAnim'[b] = nAnim[b]
          /\ (pc[b] = "cycle" /\ pc'[b] = "tick") =>
                /\ cur'[b] = cur[b]
                /\ orig'[b] = orig[b]
                /\ light_id'[b] = light_id[b]
                /\ nAnim'[b] = nAnim[b]
                /\ cycles'[b] = cycles[b] + 1
                /\ tick'[b] = 1
                /\ \A ch \in {"hue", "sat", "bri"} :
                      delta'[b][ch] = tgt'[b][ch] - cur[b][ch]
          /\ (pc[b] = "write" /\ tick[b] = 1 /\ pc'[b] = "writing") =>
                \A ch \in {"hue", "sat", "bri"} :
                    tgt[b][ch] - delta[b][ch] = cur[b][ch]]_vars

\* C21 witness: the second cycle has started from the state the five ticks
\* of the first cycle left, which is not the original
C21_Witness ==
    /\ pc["Billy"] = "tick"
    /\ cycles["Billy"] = 2
    /\ tick["Billy"] = 1
    /\ nAnim["Billy"] = 5
    /\ cur["Billy"].hue = 100
    /\ orig["Billy"].hue = 0
    /\ tgt["Billy"] = Target(0, 150, 10)
    /\ delta["Billy"].hue = -100

\* C22: once a loop has issued its restoration write it issues no further
\* write of any kind, whatever the main thread and the other loops do: its
\* counts of power-on, animation and restoration writes stay as they are,
\* it has issued one restoration write, and nothing but that write is ever
\* on the wire for it.
C22_RestoreIsLast ==
    /\ [](\A b \in Bulbs :
             /\ nRestore[b] <= 1
             /\ nRestore[b] = 1 =>
                   \A m \in wire : m.by = b => m.kind = "restore")
    /\ [][\A b \in Bulbs :
             nRestore[b] >= 1 =>
                 /\ nAnim'[b] = nAnim[b]
                 /\ nOn'[b] = nOn[b]
                 /\ nRestore'[b] = nRestore[b]
                 /\ \A m \in wire' : m.by = b => m \in wire]_vars

\* C22 witness: "Billy" has restored and ended, while an animation write of
\* "Anna" is on the wire and the main thread is joining the threads
C22_Witness ==
    /\ pc["Billy"] = "done"
    /\ nRestore["Billy"] = 1
    /\ nAnim["Billy"] >= 1
    /\ sent["Billy"].kind = "restore"
    /\ \E m \in wire : m.by = "Anna" /\ m.kind = "anim"
    /\ mainpc = "join"

====
